---------------------------- MODULE Spec2Model ----------------------------
(***************************************************************************)
(* Model of the CSV email processing script: the batch pipeline            *)
(* (csv_email_processor.py: main, process_csv, save_output) and the        *)
(* interactive window (csv_email_processor_gui.py: CSVEmailProcessorGUI).  *)
(*                                                                         *)
(* Text is a tuple of one-character strings, so that lower-casing, the     *)
(* regular expressions and the domain extraction are computed character by *)
(* character, as Python computes them.                                     *)
(***************************************************************************)
EXTENDS Integers, Sequences, FiniteSets, TLC

(***************************************************************************)
(* Bounds of the model.                                                    *)
(***************************************************************************)
\* Largest number of data rows of an input table.
MaxRows == 2
\* Largest number of lines of an exclusion file.
MaxLines == 2
\* Largest number of data rows of a table loaded in the window.
MaxGuiRows == 1
\* Largest number of runs started in the window.
MaxRuns == 1

(***************************************************************************)
(* Characters and Python's str methods.                                    *)
(***************************************************************************)
UpperSeq == << "A", "B", "C", "D", "E", "F", "G", "H", "I", "J", "K", "L", "M",
               "N", "O", "P", "Q", "R", "S", "T", "U", "V", "W", "X", "Y", "Z" >>

LowerSeq == << "a", "b", "c", "d", "e", "f", "g", "h", "i", "j", "k", "l", "m",
               "n", "o", "p", "q", "r", "s", "t", "u", "v", "w", "x", "y", "z" >>

Digits == { "0", "1", "2", "3", "4", "5", "6", "7", "8", "9" }

Whitespace == { " ", "\t", "\n", "\r" }

IsUpper(c) == \E i \in 1..Len(UpperSeq) : UpperSeq[i] = c

IsLetter(c) == \E i \in 1..Len(LowerSeq) : LowerSeq[i] = c \/ UpperSeq[i] = c

\* str.lower() on one character.
LowerChar(c) ==
    IF IsUpper(c)
    THEN LowerSeq[CHOOSE i \in 1..Len(UpperSeq) : UpperSeq[i] = c]
    ELSE c

\* str.lower()
Lower(s) == [i \in 1..Len(s) |-> LowerChar(s[i])]

RECURSIVE LStrip(_)
LStrip(s) == IF s # << >> /\ Head(s) \in Whitespace THEN LStrip(Tail(s)) ELSE s

RECURSIVE RStrip(_)
RStrip(s) ==
    IF s # << >> /\ s[Len(s)] \in Whitespace
    THEN RStrip(SubSeq(s, 1, Len(s) - 1))
    ELSE s

\* str.strip()
Strip(s) == RStrip(LStrip(s))

\* '@' in email
HasAt(s) == \E i \in 1..Len(s) : s[i] = "@"

\* email.split('@'): the pieces between the '@' characters, in order.
RECURSIVE SplitAt(_, _)
SplitAt(s, piece) ==
    IF s = << >> THEN << piece >>
    ELSE IF Head(s) = "@" THEN << piece >> \o SplitAt(Tail(s), << >>)
    ELSE SplitAt(Tail(s), Append(piece, Head(s)))

(***************************************************************************)
(* The email pattern  [a-zA-Z0-9._%+-]+@[a-zA-Z0-9.-]+\.[a-zA-Z]{2,}  as   *)
(* Python's backtracking matcher runs it.                                  *)
(***************************************************************************)
\* [a-zA-Z0-9._%+-]
LocalChar(c) == IsLetter(c) \/ c \in Digits \/ c \in { ".", "_", "%", "+", "-" }

\* [a-zA-Z0-9.-]
DomainChar(c) == IsLetter(c) \/ c \in Digits \/ c \in { ".", "-" }

\* \w of a str pattern, on the characters of the model.
WordChar(c) == IsLetter(c) \/ c \in Digits \/ c = "_"

InClass(c, cls) ==
    CASE cls = "local"  -> LocalChar(c)
      [] cls = "domain" -> DomainChar(c)
      [] cls = "letter" -> IsLetter(c)

\* The last index of the longest run of cls characters that starts at i
\* (i - 1 when s[i] is not in cls): what a greedy  cls+  consumes.
RECURSIVE RunEnd(_, _, _)
RunEnd(s, i, cls) ==
    IF i <= Len(s) /\ InClass(s[i], cls) THEN RunEnd(s, i + 1, cls) ELSE i - 1

\* '$' without re.MULTILINE: at the end of the string, or just before a
\* newline that is the string's last character.
AtDollar(s, t) == t = Len(s) \/ (t = Len(s) - 1 /\ s[Len(s)] = "\n")

\* The domain part backtracks: [a-zA-Z0-9.-]+ holds s[d0..e], tried from the
\* longest e down; then '\.' at e+1 and the greedy letters run e+2..t with at
\* least two letters (a shorter letters run is never followed by '$').
\* The value is the end t of the match, 0 when there is none.
RECURSIVE TryDomain(_, _, _, _)
TryDomain(s, d0, e, anchored) ==
    IF e < d0 THEN 0
    ELSE LET t == RunEnd(s, e + 2, "letter")
         IN  IF /\ e + 1 <= Len(s)
                /\ s[e + 1] = "."
                /\ t >= e + 3
                /\ (anchored => AtDollar(s, t))
             THEN t
             ELSE TryDomain(s, d0, e - 1, anchored)

\* The match that starts at i: its end, 0 when there is none.
MatchAt(s, i, anchored) ==
    LET a == RunEnd(s, i, "local")
    IN  IF a < i \/ a + 1 > Len(s) THEN 0
        ELSE IF s[a + 1] # "@" THEN 0
        ELSE TryDomain(s, a + 2, RunEnd(s, a + 2, "domain"), anchored)

\* re.match(r'^...$', s) is not None
ReMatch(s) == s # << >> /\ MatchAt(s, 1, TRUE) # 0

\* re.search(r'...', s): << i, t >> of the leftmost match, << 0, 0 >> if none.
RECURSIVE SearchFrom(_, _)
SearchFrom(s, i) ==
    IF i > Len(s) THEN << 0, 0 >>
    ELSE IF MatchAt(s, i, FALSE) # 0 THEN << i, MatchAt(s, i, FALSE) >>
    ELSE SearchFrom(s, i + 1)

ReSearch(s) == SearchFrom(s, 1)

\* re.sub(r'[^\w.-]', '', s)
RECURSIVE CleanDomain(_)
CleanDomain(s) ==
    IF s = << >> THEN << >>
    ELSE IF WordChar(Head(s)) \/ Head(s) \in { ".", "-" }
         THEN << Head(s) >> \o CleanDomain(Tail(s))
         ELSE CleanDomain(Tail(s))


(***************************************************************************)
(* Values of the model: cells, tables, files, paths.                       *)
(***************************************************************************)
\* A cell that pandas read as text, and an empty cell (NaN, a float).
Str(v) == [t |-> "str", v |-> v]

EmailNaN == [t |-> "float", v |-> << >>]

StatusNaN == [t |-> "float", v |-> ""]

EmailColumn == "Email Address [Required]"

StatusColumn == "Last Sign In [READ ONLY]"

NeverLoggedIn == "Never logged in"

\* Email cells of the input tables: a valid address, a valid address of another
\* domain with an upper-case letter, a text that is no address, a valid address
\* followed by a newline (a quoted field), and an empty cell.
AtX == << "a", "@", "x", ".", "c", "o" >>

BAtY == << "B", "@", "y", ".", "i", "o" >>

NoAddress == << "a", "@", "@", "x" >>

AtXNewline == << "a", "@", "x", ".", "c", "o", "\n" >>

EmailCells == { Str(AtX), Str(BAtY), Str(NoAddress), Str(AtXNewline), EmailNaN }

\* Status cells: the sentinel, a different-cased and a padded variant, a date,
\* and an empty cell.
StatusCells ==
    { Str(NeverLoggedIn), Str("never logged in"), Str("Never logged in "),
      Str("2023-01-01"), StatusNaN }

\* The rows of the input tables: every email cell with a date and with the
\* sentinel, and every status cell with a valid address.
RowKinds ==
    [ email : EmailCells, status : { Str("2023-01-01"), Str(NeverLoggedIn) } ]
    \cup [ email : { Str(AtX) }, status : StatusCells ]

\* The rows of a table with the columns cols; a column the table lacks has no
\* cells, which the row records as the empty cell.
RowsOver(cols) ==
    { [ email  |-> IF EmailColumn \in cols THEN r.email ELSE EmailNaN,
        status |-> IF StatusColumn \in cols THEN r.status ELSE StatusNaN ]
      : r \in RowKinds }

SeqsUpTo(S, n) == UNION { [1..k -> S] : k \in 0..n }

\* What pd.read_csv can return: the mandatory columns the file has, and its rows.
Tables ==
    UNION { { [columns |-> cols, rows |-> r] : r \in SeqsUpTo(RowsOver(cols), MaxRows) }
            : cols \in SUBSET { EmailColumn, StatusColumn } }

NoTable == [columns |-> {}, rows |-> << >>]

\* Lines of an exclusion file: free text around an address, a bare upper-case
\* address with blanks around it, and a line without any address.
FreeTextLine == << "t", "o", " ", "a", "@", "x", ".", "c", "o", " ", "!" >>

UpperCaseLine == << " ", "B", "@", "Y", ".", "I", "O", " " >>

NoAddressLine == << "h", "i", "@", "x" >>

TxtLines == { FreeTextLine, UpperCaseLine, NoAddressLine }

\* More lines, for load_exclusion_emails called alone: a blank line, two
\* addresses on one line, an address followed by '.u', and 'x@' before an
\* address.
BlankLine == << " ", " " >>

TwoAddressLine ==
    << "a", "@", "x", ".", "c", "o", " ", "B", "@", "y", ".", "i", "o" >>

LongTailLine == << "a", "@", "x", ".", "c", "o", ".", "u" >>

TwoAtLine == << "x", "@", "a", "@", "x", ".", "c", "o" >>

TxtLinesWide ==
    TxtLines \cup { BlankLine, TwoAddressLine, LongTailLine, TwoAtLine }

\* An exclusion file: whether it can be read as UTF-8 text, and its lines.
TxtFiles ==
    { [readable |-> FALSE, lines |-> << >>] }
    \cup { [readable |-> TRUE, lines |-> l] : l \in SeqsUpTo(TxtLines, MaxLines) }

TxtFilesWide ==
    { [readable |-> FALSE, lines |-> << >>] }
    \cup { [readable |-> TRUE, lines |-> l] : l \in SeqsUpTo(TxtLinesWide, MaxLines) }

NoTxtFile == [readable |-> FALSE, lines |-> << >>]

\* A path is << directory, file name >>; None and '' are the empty tuple.
NoPath == << >>

\* File names are texts, as the domain in the output's name is.
UsersCsv == << "u", "s", "e", "r", "s", ".", "c", "s", "v" >>

KeepTxt == << "k", "e", "e", "p", ".", "t", "x", "t" >>

\* The name of an output file of an earlier run, for the domain x.co.
EarlierOutput ==
    << "x", ".", "c", "o", "-", "t", "o", "-", "d", "e", "l", "e", "t", "e",
       ".", "c", "s", "v" >>

CsvPaths == { << "dirA", UsersCsv >> }

\* The exclusion dialog offers every file ("All files", "*.*"): a text file,
\* and the output that an earlier run left beside the input file.
TxtPaths == { << "dirA", KeepTxt >>, << "dirA", EarlierOutput >> }

\* Path(p).parent
Parent(p) == p[1]

(***************************************************************************)
(* The functions of csv_email_processor.py.                                *)
(***************************************************************************)
\* MissingColumns that looks for the email column only.
MissingColumnsEmailOnly(df) == { EmailColumn } \ df.columns

\* validate_csv_format: the mandatory columns the table lacks.
MissingColumns(df) == { EmailColumn, StatusColumn } \ df.columns

\* validate_email
validate_email(email) == email.t = "str" /\ ReMatch(email.v)

Unknown == << "u", "n", "k", "n", "o", "w", "n" >>

\* extract_domain without the re.sub that cleans the domain.
extract_domain_uncleaned(email) ==
    IF HasAt(email) THEN SplitAt(email, << >>)[2] ELSE Unknown

\* extract_domain, of a str
extract_domain(email) ==
    IF HasAt(email) THEN CleanDomain(SplitAt(email, << >>)[2]) ELSE Unknown

\* LineEmails without .lower().
LineEmailsAsWritten(raw) ==
    LET line == Strip(raw)
        m    == ReSearch(line)
    IN  IF line = << >> THEN {}
        ELSE IF m[1] # 0 THEN { SubSeq(line, m[1], m[2]) }
        ELSE IF validate_email(Str(line)) THEN { line }
        ELSE {}

\* What one line of the exclusion file adds to the set.
LineEmails(raw) ==
    LET line == Strip(raw)
        m    == ReSearch(line)
    IN  IF line = << >> THEN {}
        ELSE IF m[1] # 0 THEN { Lower(SubSeq(line, m[1], m[2])) }
        ELSE IF validate_email(Str(line)) THEN { Lower(line) }
        ELSE {}

\* load_exclusion_emails: a file that cannot be read gives the empty set.
load_exclusion_emails(file) ==
    IF ~file.readable THEN {}
    ELSE UNION { LineEmails(file.lines[i]) : i \in 1..Len(file.lines) }

\* The dtype pandas gives the email column: object when some cell is text,
\* float64 when every cell is empty.
EmailDtype(df) ==
    IF \E i \in 1..Len(df.rows) : df.rows[i].email.t = "str"
    THEN "object" ELSE "float64"

\* Series.str raises AttributeError unless the column holds text.
StrAccessorRaises(df) == EmailDtype(df) # "object"

\* LoginStatusKeep with the cell stripped before the comparison.
LoginStatusKeepStripped(row) ==
    ~(row.status.t = "str" /\ row.status.v \in { NeverLoggedIn, "Never logged in " })

\* The mask of phase 1, for one row: df[col] != 'Never logged in'
LoginStatusKeep(row) == ~(row.status.t = "str" /\ row.status.v = NeverLoggedIn)

\* ExclusionKeep without .str.lower(): a case-sensitive comparison.
ExclusionKeepCaseSensitive(row, excl) == ~(row.email.t = "str" /\ row.email.v \in excl)

\* The mask of phase 2, for one row: ~col.str.lower().isin(exclusion_emails);
\* .str.lower() leaves an empty cell NaN, which is in no set of emails.
ExclusionKeep(row, excl) == ~(row.email.t = "str" /\ Lower(row.email.v) \in excl)

\* Boolean-mask indexing df[mask]: the index labels of idx whose mask is
\* true, in order.
RECURSIVE FilterIndex(_, _)
FilterIndex(idx, mask) ==
    IF idx = << >> THEN << >>
    ELSE IF mask[Head(idx)]
         THEN << Head(idx) >> \o FilterIndex(Tail(idx), mask)
         ELSE FilterIndex(Tail(idx), mask)

\* df[df['Last Sign In [READ ONLY]'] != 'Never logged in']: index labels kept.
Phase1Filter(df) ==
    FilterIndex([i \in 1..Len(df.rows) |-> i],
                [i \in 1..Len(df.rows) |-> LoginStatusKeep(df.rows[i])])

\* df_filtered[~df_filtered[email_column].str.lower().isin(exclusion_emails)]
Phase2Filter(df, idx, excl) ==
    FilterIndex(idx, [i \in 1..Len(df.rows) |-> ExclusionKeep(df.rows[i], excl)])

\* ValidateLoop that keeps each valid email once.
RECURSIVE ValidateLoopUnique(_, _, _, _)
ValidateLoopUnique(idx, rows, valid, invalid) ==
    IF idx = << >> THEN [valid_emails |-> valid, invalid_count |-> invalid]
    ELSE LET email == rows[Head(idx)].email
         IN  IF validate_email(email)
             THEN IF \E k \in 1..Len(valid) : valid[k] = email.v
                  THEN ValidateLoopUnique(Tail(idx), rows, valid, invalid)
                  ELSE ValidateLoopUnique(Tail(idx), rows, Append(valid, email.v), invalid)
             ELSE ValidateLoopUnique(Tail(idx), rows, valid, invalid + 1)

\* The validation loop: the valid emails in order, and the invalid count.
RECURSIVE ValidateLoop(_, _, _, _)
ValidateLoop(idx, rows, valid, invalid) ==
    IF idx = << >> THEN [valid_emails |-> valid, invalid_count |-> invalid]
    ELSE LET email == rows[Head(idx)].email
         IN  IF validate_email(email)
             THEN ValidateLoop(Tail(idx), rows, Append(valid, email.v), invalid)
             ELSE ValidateLoop(Tail(idx), rows, valid, invalid + 1)

ToDeleteSuffix ==
    << "-", "t", "o", "-", "d", "e", "l", "e", "t", "e", ".", "c", "s", "v" >>

\* save_output: f"{domain}-to-delete.csv" beside the input file, one column
\* primaryEmail, no index column.
OutputFile(emails, dom, path) ==
    [ path   |-> << Parent(path), dom \o ToDeleteSuffix >>,
      header |-> << "primaryEmail" >>,
      rows   |-> emails ]

Notice(kind, title, text) == [kind |-> kind, title |-> title, text |-> text]

\* process_csv(csv_path, txt_path) as a function of what the files hold: the
\* input file can be read or not and holds the table df, the exclusion file
\* is txt.  Its value is the boxes it shows and what it returns: ok is FALSE
\* for (None, None, None).
process_csv(readable, df, p_csv, p_txt, txt) ==
    LET failed ==
            [ notices |-> << Notice("error", "Error", "Error processing CSV") >>,
              ok |-> FALSE, emails |-> << >>, domain |-> << >>, path |-> NoPath ]
        nodata ==
            [ notices |-> << Notice("warning", "No Data",
                                    "No users who have logged in found") >>,
              ok |-> FALSE, emails |-> << >>, domain |-> << >>, path |-> NoPath ]
        novalid ==
            [ notices |-> << Notice("warning", "No Valid Emails",
                                    "No valid email addresses found") >>,
              ok |-> FALSE, emails |-> << >>, domain |-> << >>, path |-> NoPath ]
        phase1 == Phase1Filter(df)
        excl   == IF p_txt # NoPath THEN load_exclusion_emails(txt) ELSE {}
        phase2 == IF excl # {} THEN Phase2Filter(df, phase1, excl) ELSE phase1
        r      == ValidateLoop(phase2, df.rows, << >>, 0)
    IN  IF ~readable THEN failed
        ELSE IF MissingColumns(df) # {} THEN failed
        ELSE IF Len(phase1) = 0 THEN nodata
        ELSE IF excl # {} /\ StrAccessorRaises(df) THEN failed
        ELSE IF r.valid_emails = << >> THEN novalid
        ELSE [ notices |-> << >>, ok |-> TRUE, emails |-> r.valid_emails,
               domain |-> extract_domain(r.valid_emails[1]), path |-> p_csv ]

\* save_output(emails, domain, csv_path) on a place that can be written or not.
save_output(emails, dom, path, writable) ==
    IF writable
    THEN [ notices |-> << Notice("info", "Success", "Processing complete") >>,
           outputs |-> << OutputFile(emails, dom, path) >> ]
    ELSE [ notices |-> << Notice("error", "Error", "Error saving output") >>,
           outputs |-> << >> ]

\* main, step 4: save_output is called when process_csv returned emails; r
\* is what process_csv returned and showed.
main_save(r, writable) ==
    IF ~r.ok THEN [ notices |-> r.notices, outputs |-> << >> ]
    ELSE LET w == save_output(r.emails, r.domain, r.path, writable)
         IN  [ notices |-> r.notices \o w.notices, outputs |-> w.outputs ]

\* main, steps 3 and 4: the boxes shown and the files written.
main(readable, df, p_csv, p_txt, txt, writable) ==
    main_save(process_csv(readable, df, p_csv, p_txt, txt), writable)

(***************************************************************************)
(* State.                                                                  *)
(***************************************************************************)
VARIABLES
    pc,               \* where the run is: the last phase it completed
    csv_path,         \* the selected input path (self.csv_path in the window)
    txt_path,         \* the selected exclusion path (self.txt_path)
    loaded_path,      \* the path pd.read_csv read df from, NoPath before that
    df,               \* the table pd.read_csv returned
    df_filtered,      \* the index labels of the rows still in df_filtered
    txt_file,         \* the file given to a call of load_exclusion_emails alone
    exclusion_emails, \* the set load_exclusion_emails returned
    valid_emails,     \* the validation loop's result, in order
    invalid_count,    \* the validation loop's count of rejected values
    domain,           \* extract_domain(valid_emails[0])
    outputs,          \* the files written by to_csv, in order
    notices,          \* the message boxes shown, in order
    start_button,     \* the state of the window's Start Processing button
    after_queue,      \* the callbacks given to root.after, not yet run
    runs              \* the number of worker threads started so far

\* The state of the window's widgets and event loop.
window == << start_button, after_queue, runs >>

vars == << pc, csv_path, txt_path, loaded_path, df, df_filtered, txt_file,
           exclusion_emails, valid_emails, invalid_count, domain, outputs,
           notices, window >>

\* The locals of process_csv.
locals == << loaded_path, df, df_filtered, txt_file, exclusion_emails,
             valid_emails, invalid_count, domain >>

Init ==
    /\ pc = "Idle"
    /\ csv_path = NoPath
    /\ txt_path = NoPath
    /\ loaded_path = NoPath
    /\ df = NoTable
    /\ df_filtered = << >>
    /\ txt_file = NoTxtFile
    /\ exclusion_emails = {}
    /\ valid_emails = << >>
    /\ invalid_count = 0
    /\ domain = << >>
    /\ outputs = << >>
    /\ notices = << >>
    /\ start_button = "normal"
    /\ after_queue = << >>
    /\ runs = 0

(***************************************************************************)
(* csv_email_processor.py: main, process_csv, save_output.                 *)
(***************************************************************************)
\* messagebox.showerror("Error", f"Error processing CSV: ...") and the return
\* of (None, None, None), after which main returns.
ProcessingError ==
    /\ notices' = Append(notices, Notice("error", "Error", "Error processing CSV"))
    /\ pc' = "Done"

\* main, step 1: the file dialog gives a path, or '' when it is cancelled.
SelectCsv ==
    /\ pc = "Idle"
    /\ \E p \in CsvPaths \cup { NoPath } :
          /\ csv_path' = p
          /\ pc' = IF p = NoPath THEN "Done" ELSE "CsvSelected"
    /\ UNCHANGED << window, txt_path, locals, outputs, notices >>

\* main, step 2: the optional exclusion file, None when declined.
SelectTxt ==
    /\ pc = "CsvSelected"
    /\ \E p \in TxtPaths \cup { NoPath } : txt_path' = p
    /\ pc' = "FileSelected"
    /\ UNCHANGED << window, csv_path, locals, outputs, notices >>

\* process_csv: pd.read_csv(csv_path), which raises on a file it cannot read.
LoadCsv ==
    /\ pc = "FileSelected"
    /\ \/ /\ ProcessingError
          /\ UNCHANGED << loaded_path, df >>
       \/ \E t \in Tables :
             /\ df' = t
             /\ loaded_path' = csv_path
             /\ pc' = "Loaded"
             /\ UNCHANGED notices
    /\ UNCHANGED << window, csv_path, txt_path, df_filtered, txt_file, exclusion_emails,
                    valid_emails, invalid_count, domain, outputs >>

\* process_csv: validate_csv_format(df) raises ValueError on a missing column.
ValidateCsvFormat ==
    /\ pc = "Loaded"
    /\ IF MissingColumns(df) # {}
       THEN ProcessingError
       ELSE pc' = "SchemaOk" /\ UNCHANGED notices
    /\ UNCHANGED << window, csv_path, txt_path, locals, outputs >>

\* process_csv, phase 1, and the early return when no row is left.
Phase1 ==
    /\ pc = "SchemaOk"
    /\ df_filtered' = Phase1Filter(df)
    /\ IF Len(df_filtered') = 0
       THEN /\ notices' = Append(notices, Notice("warning", "No Data",
                                    "No users who have logged in found"))
            /\ pc' = "Done"
       ELSE pc' = "Phase1" /\ UNCHANGED notices
    /\ UNCHANGED << window, csv_path, txt_path, loaded_path, df, txt_file,
                    exclusion_emails, valid_emails, invalid_count, domain,
                    outputs >>

\* process_csv, phase 2 (only with a txt_path): load the exclusion set and,
\* when it is not empty, filter; Series.str raises on a column without text.
Phase2 ==
    /\ pc = "Phase1"
    /\ txt_path # NoPath
    /\ \E f \in TxtFiles : exclusion_emails' = load_exclusion_emails(f)
    /\ IF exclusion_emails' = {}
       THEN pc' = "Phase2" /\ UNCHANGED << df_filtered, notices >>
       ELSE IF StrAccessorRaises(df)
       THEN ProcessingError /\ UNCHANGED df_filtered
       ELSE /\ df_filtered' = Phase2Filter(df, df_filtered, exclusion_emails')
            /\ pc' = "Phase2"
            /\ UNCHANGED notices
    /\ UNCHANGED << window, csv_path, txt_path, loaded_path, df, txt_file, valid_emails,
                    invalid_count, domain, outputs >>

\* process_csv: the validation loop, and the early return without valid emails.
ValidateEmails ==
    /\ \/ pc = "Phase2"
       \/ pc = "Phase1" /\ txt_path = NoPath
    /\ LET r == ValidateLoop(df_filtered, df.rows, << >>, 0)
       IN  /\ valid_emails' = r.valid_emails
           /\ invalid_count' = r.invalid_count
    /\ IF valid_emails' = << >>
       THEN /\ notices' = Append(notices, Notice("warning", "No Valid Emails",
                                    "No valid email addresses found"))
            /\ pc' = "Done"
       ELSE pc' = "Validated" /\ UNCHANGED notices
    /\ UNCHANGED << window, csv_path, txt_path, loaded_path, df, df_filtered, txt_file,
                    exclusion_emails, domain, outputs >>

\* process_csv: the domain of the first valid email; more than one domain among
\* the valid emails is printed as a warning only.
ResolveDomain ==
    /\ pc = "Validated"
    /\ domain' = extract_domain(valid_emails[1])
    /\ pc' = "DomainResolved"
    /\ UNCHANGED << window, csv_path, txt_path, loaded_path, df, df_filtered, txt_file,
                    exclusion_emails, valid_emails, invalid_count, outputs,
                    notices >>

\* WriteOutput whose failure comes after to_csv has written the file.
WriteOutputThenFail ==
    /\ pc = "DomainResolved"
    /\ \/ /\ outputs' = Append(outputs, OutputFile(valid_emails, domain, csv_path))
          /\ pc' = "Written"
          /\ UNCHANGED notices
       \/ /\ outputs' = Append(outputs, OutputFile(valid_emails, domain, csv_path))
          /\ notices' = Append(notices, Notice("error", "Error", "Error saving output"))
          /\ pc' = "Done"
    /\ UNCHANGED << window, csv_path, txt_path, locals >>

\* save_output: to_csv writes the file, or raises when the place is unwritable.
WriteOutput ==
    /\ pc = "DomainResolved"
    /\ \/ /\ outputs' = Append(outputs, OutputFile(valid_emails, domain, csv_path))
          /\ pc' = "Written"
          /\ UNCHANGED notices
       \/ /\ notices' = Append(notices, Notice("error", "Error", "Error saving output"))
          /\ pc' = "Done"
          /\ UNCHANGED outputs
    /\ UNCHANGED << window, csv_path, txt_path, locals >>

\* save_output: the success notice; main then ends.
ReportSuccess ==
    /\ pc = "Written"
    /\ notices' = Append(notices, Notice("info", "Success", "Processing complete"))
    /\ pc' = "Done"
    /\ UNCHANGED << window, csv_path, txt_path, locals, outputs >>

Next ==
    \/ SelectCsv
    \/ SelectTxt
    \/ LoadCsv
    \/ ValidateCsvFormat
    \/ Phase1
    \/ Phase2
    \/ ValidateEmails
    \/ ResolveDomain
    \/ WriteOutput
    \/ ReportSuccess

Spec == Init /\ [][Next]_vars

(***************************************************************************)
(* load_exclusion_emails called alone, on every file of the wider pool.    *)
(***************************************************************************)
InitExclusion ==
    /\ pc = "ExclusionCall"
    /\ txt_path \in TxtPaths
    /\ txt_file \in TxtFilesWide
    /\ csv_path = NoPath
    /\ loaded_path = NoPath
    /\ df = NoTable
    /\ df_filtered = << >>
    /\ exclusion_emails = {}
    /\ valid_emails = << >>
    /\ invalid_count = 0
    /\ domain = << >>
    /\ outputs = << >>
    /\ notices = << >>
    /\ start_button = "normal"
    /\ after_queue = << >>
    /\ runs = 0

ReadExclusionFile ==
    /\ pc = "ExclusionCall"
    /\ exclusion_emails' = load_exclusion_emails(txt_file)
    /\ pc' = "ExclusionReturned"
    /\ UNCHANGED << window, csv_path, txt_path, loaded_path, df, df_filtered, txt_file,
                    valid_emails, invalid_count, domain, outputs, notices >>

NextExclusion == ReadExclusionFile

SpecExclusion == InitExclusion /\ [][NextExclusion]_vars

(***************************************************************************)
(* main with the exclusion file's content known: txt_file is what the file *)
(* at the selected exclusion path holds, and phase 2 reads that file.      *)
(***************************************************************************)
InitDisk ==
    /\ pc = "Idle"
    /\ txt_file \in TxtFiles
    /\ csv_path = NoPath
    /\ txt_path = NoPath
    /\ loaded_path = NoPath
    /\ df = NoTable
    /\ df_filtered = << >>
    /\ exclusion_emails = {}
    /\ valid_emails = << >>
    /\ invalid_count = 0
    /\ domain = << >>
    /\ outputs = << >>
    /\ notices = << >>
    /\ start_button = "normal"
    /\ after_queue = << >>
    /\ runs = 0

\* process_csv, phase 2, where load_exclusion_emails(txt_path) opens txt_file.
Phase2Disk ==
    /\ Phase2
    /\ exclusion_emails' = load_exclusion_emails(txt_file)

NextDisk ==
    \/ SelectCsv
    \/ SelectTxt
    \/ LoadCsv
    \/ ValidateCsvFormat
    \/ Phase1
    \/ Phase2Disk
    \/ ValidateEmails
    \/ ResolveDomain
    \/ WriteOutput
    \/ ReportSuccess

SpecDisk == InitDisk /\ [][NextDisk]_vars

(***************************************************************************)
(* csv_email_processor_gui.py: the window (UI thread) and process_files    *)
(* (worker thread).  Every read of self.csv_path or self.txt_path by the   *)
(* worker is a step of its own, so that the UI thread's handlers can run   *)
(* between any two of them.  notices and outputs hold what was shown and   *)
(* written since the last click on Start Processing.  Lines 200 and        *)
(* 220-222 are the expressions of process_csv, so Phase1Filter,            *)
(* Phase2Filter and StrAccessorRaises serve both.                          *)
(***************************************************************************)
GuiCsvPaths == { << "dirA", UsersCsv >>, << "dirB", UsersCsv >> }

\* What pd.read_csv can return in the window's runs.
GuiTables == { t \in Tables : Len(t.rows) <= MaxGuiRows }

\* CSVEmailProcessorGUI.validate_email
gui_validate_email(email) == email.t = "str" /\ ReMatch(email.v)

\* CSVEmailProcessorGUI.extract_domain, of a str
gui_extract_domain(email) ==
    IF HasAt(email) THEN CleanDomain(SplitAt(email, << >>)[2]) ELSE Unknown

\* gui_LineEmails without .lower().
gui_LineEmailsAsWritten(raw) ==
    LET line == Strip(raw)
        m    == ReSearch(line)
    IN  IF line = << >> THEN {}
        ELSE IF m[1] # 0 THEN { SubSeq(line, m[1], m[2]) }
        ELSE IF gui_validate_email(Str(line)) THEN { line }
        ELSE {}

\* CSVEmailProcessorGUI.load_exclusion_emails, for one line of the file.
gui_LineEmails(raw) ==
    LET line == Strip(raw)
        m    == ReSearch(line)
    IN  IF line = << >> THEN {}
        ELSE IF m[1] # 0 THEN { Lower(SubSeq(line, m[1], m[2])) }
        ELSE IF gui_validate_email(Str(line)) THEN { Lower(line) }
        ELSE {}

\* CSVEmailProcessorGUI.load_exclusion_emails: open(None) and a file that
\* cannot be read raise inside the try, which gives the empty set.
gui_load_exclusion_emails(path, file) ==
    IF path = NoPath \/ ~file.readable THEN {}
    ELSE UNION { gui_LineEmails(file.lines[i]) : i \in 1..Len(file.lines) }

\* The validation loop of process_files.
RECURSIVE gui_ValidateLoop(_, _, _, _)
gui_ValidateLoop(idx, rows, valid, invalid) ==
    IF idx = << >> THEN [valid_emails |-> valid, invalid_count |-> invalid]
    ELSE LET email == rows[Head(idx)].email
         IN  IF gui_validate_email(email)
             THEN gui_ValidateLoop(Tail(idx), rows, Append(valid, email.v), invalid)
             ELSE gui_ValidateLoop(Tail(idx), rows, valid, invalid + 1)

\* process_files as a function of what the files hold, for a window whose
\* selection stays as it is during the run: the boxes it shows and the files
\* it writes.
process_files(readable, table, p_csv, p_txt, txt, writable) ==
    LET raised ==
            [ notices |-> << Notice("error", "Error", "Error: exception") >>,
              outputs |-> << >> ]
        nodata ==
            [ notices |-> << Notice("warning", "No Data",
                                    "No users who have logged in found") >>,
              outputs |-> << >> ]
        novalid ==
            [ notices |-> << Notice("error", "Error",
                                    "No valid email addresses found.") >>,
              outputs |-> << >> ]
        phase1 == Phase1Filter(table)
        excl   == IF p_txt # NoPath THEN gui_load_exclusion_emails(p_txt, txt) ELSE {}
        phase2 == IF excl # {} THEN Phase2Filter(table, phase1, excl) ELSE phase1
        r      == gui_ValidateLoop(phase2, table.rows, << >>, 0)
    IN  IF ~readable THEN raised
        ELSE IF { c \in { EmailColumn, StatusColumn } : c \notin table.columns } # {}
        THEN raised
        ELSE IF Len(phase1) = 0 THEN nodata
        ELSE IF excl # {} /\ StrAccessorRaises(table) THEN raised
        ELSE IF r.valid_emails = << >> THEN novalid
        ELSE IF ~writable THEN raised
        ELSE [ notices |-> << Notice("info", "Success", "Processing complete") >>,
               outputs |-> << OutputFile(r.valid_emails,
                                         gui_extract_domain(r.valid_emails[1]),
                                         p_csv) >> ]

\* A worker thread is between its start and its end.
WorkerRunning == pc \notin { "Idle", "Done" }

InitGui == Init

\* select_csv_file: the dialog gives a path, or '' when it is cancelled.
GuiSelectCsv ==
    /\ \E p \in GuiCsvPaths \cup { NoPath } : csv_path' = p
    /\ UNCHANGED << pc, txt_path, locals, outputs, notices, window >>

\* select_txt_file
GuiSelectTxt ==
    /\ \E p \in TxtPaths \cup { NoPath } : txt_path' = p
    /\ UNCHANGED << pc, csv_path, locals, outputs, notices, window >>

\* clear_csv_file: its button is enabled while a CSV file is selected.
GuiClearCsv ==
    /\ csv_path # NoPath
    /\ csv_path' = NoPath
    /\ UNCHANGED << pc, txt_path, locals, outputs, notices, window >>

\* clear_txt_file: its button is enabled while a TXT file is selected.
GuiClearTxt ==
    /\ txt_path # NoPath
    /\ txt_path' = NoPath
    /\ UNCHANGED << pc, csv_path, locals, outputs, notices, window >>

\* start_processing: without a CSV file an error box; otherwise the button is
\* disabled and a worker thread starts process_files with fresh locals.
GuiStartProcessing ==
    /\ start_button = "normal"
    /\ IF csv_path = NoPath
       THEN /\ notices' = << Notice("error", "Error", "Please select a CSV file first!") >>
            /\ UNCHANGED << pc, locals, start_button, runs >>
       ELSE /\ runs < MaxRuns
            /\ start_button' = "disabled"
            /\ runs' = runs + 1
            /\ pc' = "Started"
            /\ notices' = << >>
            /\ loaded_path' = NoPath
            /\ df' = NoTable
            /\ df_filtered' = << >>
            /\ exclusion_emails' = {}
            /\ valid_emails' = << >>
            /\ invalid_count' = 0
            /\ domain' = << >>
            /\ UNCHANGED txt_file
    /\ outputs' = << >>
    /\ UNCHANGED << csv_path, txt_path, after_queue >>

\* The event loop runs the oldest root.after callback: processing_finished
\* enables the button again, the others show their message box.
GuiRunCallback ==
    /\ after_queue # << >>
    /\ after_queue' = Tail(after_queue)
    /\ CASE Head(after_queue) = "processing_finished" ->
              start_button' = "normal" /\ UNCHANGED notices
         [] Head(after_queue) = "showinfo" ->
              /\ notices' = Append(notices, Notice("info", "Success", "Processing complete"))
              /\ UNCHANGED start_button
         [] Head(after_queue) = "showerror" ->
              /\ notices' = Append(notices, Notice("error", "Error", "Error: exception"))
              /\ UNCHANGED start_button
    /\ UNCHANGED << pc, csv_path, txt_path, locals, outputs, runs >>

\* process_files, except and finally: the error box and processing_finished
\* are handed to root.after, and the thread ends.
WorkerRaise ==
    /\ after_queue' = after_queue \o << "showerror", "processing_finished" >>
    /\ pc' = "Done"
    /\ UNCHANGED << start_button, runs, notices >>

\* WorkerReturn whose return leaves without the finally block.
WorkerReturnNoFinally ==
    /\ pc' = "Done"
    /\ UNCHANGED << start_button, runs, after_queue >>

\* process_files, return and finally.
WorkerReturn ==
    /\ after_queue' = Append(after_queue, "processing_finished")
    /\ pc' = "Done"
    /\ UNCHANGED << start_button, runs >>

WorkerContinue(next) ==
    /\ pc' = next
    /\ UNCHANGED << window, notices >>

\* process_files, line 179: os.path.basename(self.csv_path) raises on None.
WorkerLogCsv ==
    /\ pc = "Started"
    /\ IF csv_path = NoPath THEN WorkerRaise ELSE WorkerContinue("LoggedCsv")
    /\ UNCHANGED << csv_path, txt_path, locals, outputs >>

\* process_files, line 180: if self.txt_path
WorkerTestTxt ==
    /\ pc = "LoggedCsv"
    /\ WorkerContinue(IF txt_path # NoPath THEN "LogTxt" ELSE "FileSelected")
    /\ UNCHANGED << csv_path, txt_path, locals, outputs >>

\* process_files, line 181: os.path.basename(self.txt_path) raises on None.
WorkerLogTxt ==
    /\ pc = "LogTxt"
    /\ IF txt_path = NoPath THEN WorkerRaise ELSE WorkerContinue("FileSelected")
    /\ UNCHANGED << csv_path, txt_path, locals, outputs >>

\* process_files, line 188: pd.read_csv(self.csv_path) raises on None and on
\* a file it cannot read.
WorkerLoadCsv ==
    /\ pc = "FileSelected"
    /\ \/ /\ WorkerRaise
          /\ UNCHANGED << loaded_path, df >>
       \/ /\ csv_path # NoPath
          /\ \E t \in GuiTables : df' = t
          /\ loaded_path' = csv_path
          /\ WorkerContinue("Loaded")
    /\ UNCHANGED << csv_path, txt_path, df_filtered, txt_file, exclusion_emails,
                    valid_emails, invalid_count, domain, outputs >>

\* process_files, lines 191-196: the mandatory columns.
WorkerValidateFormat ==
    /\ pc = "Loaded"
    /\ IF { c \in { EmailColumn, StatusColumn } : c \notin df.columns } # {}
       THEN WorkerRaise
       ELSE WorkerContinue("SchemaOk")
    /\ UNCHANGED << csv_path, txt_path, locals, outputs >>

\* process_files, lines 198-208: phase 1; with no row left the worker itself
\* shows the warning and returns.
WorkerPhase1 ==
    /\ pc = "SchemaOk"
    /\ df_filtered' = Phase1Filter(df)
    /\ IF Len(df_filtered') = 0
       THEN /\ notices' = Append(notices, Notice("warning", "No Data",
                                    "No users who have logged in found"))
            /\ WorkerReturn
       ELSE WorkerContinue("Phase1")
    /\ UNCHANGED << csv_path, txt_path, loaded_path, df, txt_file,
                    exclusion_emails, valid_emails, invalid_count, domain,
                    outputs >>

\* process_files, line 211: if self.txt_path
WorkerTestExclusion ==
    /\ pc = "Phase1"
    /\ WorkerContinue(IF txt_path # NoPath THEN "TxtChecked" ELSE "Phase2")
    /\ UNCHANGED << csv_path, txt_path, locals, outputs >>

\* process_files, lines 213-226: load_exclusion_emails(self.txt_path), and the
\* filter when the set is not empty.
WorkerPhase2 ==
    /\ pc = "TxtChecked"
    /\ \E f \in TxtFiles : exclusion_emails' = gui_load_exclusion_emails(txt_path, f)
    /\ IF exclusion_emails' = {}
       THEN WorkerContinue("Phase2") /\ UNCHANGED df_filtered
       ELSE IF StrAccessorRaises(df)
       THEN WorkerRaise /\ UNCHANGED df_filtered
       ELSE /\ df_filtered' = Phase2Filter(df, df_filtered, exclusion_emails')
            /\ WorkerContinue("Phase2")
    /\ UNCHANGED << csv_path, txt_path, loaded_path, df, txt_file, valid_emails,
                    invalid_count, domain, outputs >>

\* process_files, lines 228-246: the validation loop; without a valid email
\* the worker itself shows an error box and returns.
WorkerValidateEmails ==
    /\ pc = "Phase2"
    /\ LET r == gui_ValidateLoop(df_filtered, df.rows, << >>, 0)
       IN  /\ valid_emails' = r.valid_emails
           /\ invalid_count' = r.invalid_count
    /\ IF valid_emails' = << >>
       THEN /\ notices' = Append(notices, Notice("error", "Error",
                                    "No valid email addresses found."))
            /\ WorkerReturn
       ELSE WorkerContinue("Validated")
    /\ UNCHANGED << csv_path, txt_path, loaded_path, df, df_filtered, txt_file,
                    exclusion_emails, domain, outputs >>

\* process_files, lines 248-255: the domain of the first valid email.
WorkerResolveDomain ==
    /\ pc = "Validated"
    /\ domain' = gui_extract_domain(valid_emails[1])
    /\ WorkerContinue("DomainResolved")
    /\ UNCHANGED << csv_path, txt_path, loaded_path, df, df_filtered, txt_file,
                    exclusion_emails, valid_emails, invalid_count, outputs >>

\* process_files, lines 257-263: Path(self.csv_path) raises on None; to_csv
\* writes beside the path selected now, or raises.
WorkerWriteOutput ==
    /\ pc = "DomainResolved"
    /\ \/ /\ WorkerRaise
          /\ UNCHANGED outputs
       \/ /\ csv_path # NoPath
          /\ outputs' = Append(outputs, OutputFile(valid_emails, domain, csv_path))
          /\ WorkerContinue("Written")
    /\ UNCHANGED << csv_path, txt_path, locals >>

\* process_files, lines 265-287: the success box is handed to root.after, then
\* finally.
WorkerSuccess ==
    /\ pc = "Written"
    /\ after_queue' = after_queue \o << "showinfo", "processing_finished" >>
    /\ pc' = "Done"
    /\ UNCHANGED << csv_path, txt_path, locals, outputs, notices, start_button,
                    runs >>

NextGui ==
    \/ GuiSelectCsv
    \/ GuiSelectTxt
    \/ GuiClearCsv
    \/ GuiClearTxt
    \/ GuiStartProcessing
    \/ GuiRunCallback
    \/ WorkerLogCsv
    \/ WorkerTestTxt
    \/ WorkerLogTxt
    \/ WorkerLoadCsv
    \/ WorkerValidateFormat
    \/ WorkerPhase1
    \/ WorkerTestExclusion
    \/ WorkerPhase2
    \/ WorkerValidateEmails
    \/ WorkerResolveDomain
    \/ WorkerWriteOutput
    \/ WorkerSuccess

SpecGui == InitGui /\ [][NextGui]_vars

\* The steps of the worker thread.
Worker ==
    \/ WorkerLogCsv
    \/ WorkerTestTxt
    \/ WorkerLogTxt
    \/ WorkerLoadCsv
    \/ WorkerValidateFormat
    \/ WorkerPhase1
    \/ WorkerTestExclusion
    \/ WorkerPhase2
    \/ WorkerValidateEmails
    \/ WorkerResolveDomain
    \/ WorkerWriteOutput
    \/ WorkerSuccess

\* A started thread keeps being scheduled: weak fairness of Worker, whose
\* steps are enabled exactly while a worker runs (each step of process_files
\* has a next one until the thread ends).
WorkerScheduled == []<>(~WorkerRunning) \/ []<><<Worker>>_vars

\* root.mainloop() keeps running the callbacks given to root.after; the user
\* may stop clicking at any time.
SpecGuiFair == SpecGui /\ WorkerScheduled /\ WF_vars(GuiRunCallback)

(***************************************************************************)
(* Both programs run on the same files, one after the other: main, then    *)
(* process_files in a window with the same selection.                      *)
(***************************************************************************)
\* An input file in a directory that can be written, one in a directory that
\* cannot, and the path of a file that is gone.
EquivCsvPaths ==
    { << "dirA", UsersCsv >>, << "readonly", UsersCsv >>, << "gone", UsersCsv >> }

\* pd.read_csv(p) succeeds
CanRead(p) == Parent(p) # "gone"

\* to_csv can write into the directory of p
CanWrite(p) == Parent(p) = "dirA"

\* The tables of the comparison: a status cell is a date or the sentinel (both
\* programs filter the status by the one expression of Phase1Filter).
EquivTables ==
    { t \in Tables :
         StatusColumn \in t.columns =>
            \A i \in 1..Len(t.rows) :
               t.rows[i].status \in { Str("2023-01-01"), Str(NeverLoggedIn) } }

\* What the file at path p holds: nothing that can be read when it is gone,
\* and a table of at most one row in the directory that cannot be written
\* (to_csv fails there whatever it is given).
EquivTablesAt(p) ==
    IF ~CanRead(p) THEN { NoTable }
    ELSE IF ~CanWrite(p) THEN { t \in EquivTables : Len(t.rows) <= 1 }
    ELSE EquivTables

InitEquiv ==
    /\ pc = "EquivCall"
    /\ csv_path \in EquivCsvPaths
    /\ txt_path \in { NoPath, << "dirA", KeepTxt >> }
    /\ txt_file \in IF txt_path = NoPath THEN { NoTxtFile } ELSE TxtFiles
    /\ df \in EquivTablesAt(csv_path)
    /\ loaded_path = NoPath
    /\ df_filtered = << >>
    /\ exclusion_emails = {}
    /\ valid_emails = << >>
    /\ invalid_count = 0
    /\ domain = << >>
    /\ outputs = << >>
    /\ notices = << >>
    /\ start_button = "normal"
    /\ after_queue = << >>
    /\ runs = 0

\* csv_email_processor.py is run on the files, then the window's Start
\* Processing is clicked.  The boxes and files of main are recorded first,
\* then those of process_files.
RunBoth ==
    /\ pc = "EquivCall"
    /\ LET m == main(CanRead(csv_path), df, csv_path, txt_path, txt_file,
                     CanWrite(csv_path))
           g == process_files(CanRead(csv_path), df, csv_path, txt_path, txt_file,
                              CanWrite(csv_path))
       IN  /\ notices' = m.notices \o g.notices
           /\ outputs' = m.outputs \o g.outputs
    /\ pc' = "BothReturned"
    /\ UNCHANGED << window, csv_path, txt_path, locals >>

NextEquiv == RunBoth

SpecEquiv == InitEquiv /\ [][NextEquiv]_vars

(***************************************************************************)
(* The claims.  Their statements use their own reading of the text: the    *)
(* pattern as a shape of the string, the survivors as a selection from the *)
(* table.                                                                  *)
(***************************************************************************)
Range(seq) == { seq[i] : i \in 1..Len(seq) }

Loaded == loaded_path # NoPath

HasBothColumns(t) == { EmailColumn, StatusColumn } \subseteq t.columns

\* The terminal status of the run: success, empty or error by its last notice.
Outcome ==
    IF pc # "Done" THEN "running"
    ELSE IF notices = << >> THEN "none"
    ELSE LET last == notices[Len(notices)]
         IN  CASE last.kind = "info"    -> "success"
               [] last.kind = "warning" -> "empty"
               [] last.kind = "error"   -> "error"

\* s is a local part, '@', a domain part, '.', and two letters or more.
EmailShape(s) ==
    \E q \in 2..Len(s), p \in 1..Len(s) :
       /\ p > q + 1
       /\ s[q] = "@"
       /\ s[p] = "."
       /\ \A k \in 1..(q - 1) : LocalChar(s[k])
       /\ \A k \in (q + 1)..(p - 1) : DomainChar(s[k])
       /\ Len(s) - p >= 2
       /\ \A k \in (p + 1)..Len(s) : IsLetter(s[k])

\* The anchored pattern matches the cell, as Python's '$' reads it: the shape,
\* or the shape followed by one final newline.
PatternValid(cell) ==
    /\ cell.t = "str"
    /\ \/ EmailShape(cell.v)
       \/ /\ Len(cell.v) > 0
          /\ cell.v[Len(cell.v)] = "\n"
          /\ EmailShape(SubSeq(cell.v, 1, Len(cell.v) - 1))

NotSentinel(row) == row.status # Str(NeverLoggedIn)

Excluded(row, excl) == row.email.t = "str" /\ Lower(row.email.v) \in excl

\* The emails of the rows of t that survive all three steps, in row order.
ClaimSurvivors(t, excl) ==
    LET Survives(row) ==
            NotSentinel(row) /\ ~Excluded(row, excl) /\ PatternValid(row.email)
        kept == SelectSeq(t.rows, Survives)
    IN  [i \in 1..Len(kept) |-> kept[i].email.v]

\* The text after the first '@' with the characters outside [A-Za-z0-9._-]
\* removed.
ClaimDomain(email) ==
    LET at    == CHOOSE k \in 1..Len(email) :
                    email[k] = "@" /\ \A j \in 1..(k - 1) : email[j] # "@"
        Safe(c) == IsLetter(c) \/ c \in Digits \/ c \in { ".", "_", "-" }
    IN  SelectSeq(SubSeq(email, at + 1, Len(email)), Safe)

\* The place << i, j >> of the leftmost, longest substring of line that has
\* the shape of an email; HasEmail says there is one.
EmailPlaces(line) ==
    { ij \in (1..Len(line)) \X (1..Len(line)) :
         ij[1] <= ij[2] /\ EmailShape(SubSeq(line, ij[1], ij[2])) }

HasEmail(line) == EmailPlaces(line) # {}

FirstEmail(line) ==
    LET ij == CHOOSE a \in EmailPlaces(line) :
                 \A b \in EmailPlaces(line) :
                    a[1] < b[1] \/ (a[1] = b[1] /\ a[2] >= b[2])
    IN  SubSeq(line, ij[1], ij[2])

\* C1: once phase 1 has run on a table with both columns, a row is among the
\* kept rows if and only if its status cell is not exactly the text
\* "Never logged in"; variants in case or padding and empty cells are kept.
C1_LoginStatusFilter ==
    (pc = "Phase1" \/ (pc = "Done" /\ notices # << >>
                         /\ notices[Len(notices)].title = "No Data"))
    => /\ HasBothColumns(df)
       /\ \A i \in 1..Len(df.rows) :
             i \in Range(df_filtered) <=> df.rows[i].status # Str(NeverLoggedIn)

C1_Witness ==
    /\ pc = "Phase1"
    /\ \E i, j \in 1..Len(df.rows) :
          /\ df.rows[i].status = Str(NeverLoggedIn)
          /\ i \notin Range(df_filtered)
          /\ df.rows[j].status = Str("Never logged in ")
          /\ j \in Range(df_filtered)

\* C2: once phase 2 has run, a row that survived phase 1 has been dropped if
\* and only if its email, lower-cased, is in the exclusion set; and no file
\* written holds an email whose lower-cased form is in the exclusion set.
C2_ExclusionFilter ==
    /\ (txt_path # NoPath /\ pc \in { "Phase2", "Validated", "DomainResolved", "Written" })
       => \A i \in 1..Len(df.rows) :
             NotSentinel(df.rows[i])
             => (i \notin Range(df_filtered) <=> Excluded(df.rows[i], exclusion_emails))
    /\ \A k \in 1..Len(outputs) :
          \A j \in 1..Len(outputs[k].rows) :
             Lower(outputs[k].rows[j]) \notin exclusion_emails

C2_Witness ==
    /\ pc = "Phase2"
    /\ \E i, j \in 1..Len(df.rows) :
          /\ df.rows[i] = [email |-> Str(BAtY), status |-> Str("2023-01-01")]
          /\ i \notin Range(df_filtered)
          /\ j \in Range(df_filtered)

\* C3: on a table with both columns no email value aborts the run (no
\* "Error processing CSV" notice), with or without an exclusion set; after
\* validation the invalid count is the number of rows that reached validation
\* with a value that is no string or does not match the pattern, and none of
\* these values is among the valid emails.
C3_InvalidNeverAborts ==
    (Loaded /\ HasBothColumns(df))
    => /\ \A k \in 1..Len(notices) : notices[k].text # "Error processing CSV"
       /\ pc \in { "Validated", "DomainResolved", "Written" }
          => /\ invalid_count =
                   Cardinality({ i \in Range(df_filtered) : ~PatternValid(df.rows[i].email) })
             /\ \A k \in 1..Len(valid_emails) : PatternValid(Str(valid_emails[k]))

\* C4: a file that is written has the single header primaryEmail and, as its
\* rows, the emails of the surviving rows in row order, duplicates included;
\* a run that ends without a file and without a write failure has no
\* surviving row.
C4_FilterStability ==
    /\ Len(outputs) <= 1
    /\ \A k \in 1..Len(outputs) :
          /\ outputs[k].header = << "primaryEmail" >>
          /\ outputs[k].rows = ClaimSurvivors(df, exclusion_emails)
    /\ (/\ pc = "Done" /\ Loaded /\ HasBothColumns(df) /\ outputs = << >>
        /\ \A k \in 1..Len(notices) : notices[k].text # "Error saving output")
       => ClaimSurvivors(df, exclusion_emails) = << >>

C4_Witness ==
    /\ pc = "Written"
    /\ Len(df.rows) = 2
    /\ outputs[1].rows = << AtX, AtX >>

\* C5: a table that lacks a mandatory column ends the run in the error
\* outcome from Loaded: no filter step runs, and no file is written.
C5_SchemaFailure ==
    (Loaded /\ ~HasBothColumns(df))
    => /\ pc \in { "Loaded", "Done" }
       /\ df_filtered = << >> /\ valid_emails = << >> /\ exclusion_emails = {}
       /\ outputs = << >>
       /\ pc = "Done" => Outcome = "error"

C5_Witness ==
    /\ pc = "Done"
    /\ Loaded
    /\ df.columns = { EmailColumn }
    /\ Len(df.rows) > 0
    /\ Outcome = "error"

\* C6: a run on a table with both columns that leaves no surviving valid
\* email ends in the empty outcome (a warning notice) and writes no file; a
\* file is written only when some valid email survives.
C6_EmptyResult ==
    /\ (/\ pc = "Done" /\ Loaded /\ HasBothColumns(df)
        /\ ClaimSurvivors(df, exclusion_emails) = << >>)
       => Outcome = "empty" /\ outputs = << >>
    /\ outputs # << >> => ClaimSurvivors(df, exclusion_emails) # << >>

\* C7: the file written is named <d>-to-delete.csv in the directory of the
\* input file, d being the cleaned text after the '@' of the first surviving
\* valid email; with several domains the run still writes every surviving
\* email into that one file.
C7_DomainNaming ==
    \A k \in 1..Len(outputs) :
       LET first == ClaimSurvivors(df, exclusion_emails)[1]
       IN  /\ outputs[k].path = << csv_path[1], ClaimDomain(first) \o ToDeleteSuffix >>
           /\ Len(outputs[k].rows) = Len(ClaimSurvivors(df, exclusion_emails))
           /\ pc = "Done" => Outcome = "success"

C7_Witness ==
    /\ pc = "Done"
    /\ Len(outputs) = 1
    /\ outputs[1].rows = << AtXNewline, BAtY >>
    /\ outputs[1].path[2] = << "x", ".", "c", "o" >> \o ToDeleteSuffix

\* C8: the exclusion set returned for a readable file holds, for every line with
\* an email in it, that email (the leftmost, longest one) lower-cased, and
\* nothing else: lines without an email add nothing, equal emails collapse,
\* and no member has an upper-case letter.
C8_ExclusionParsing ==
    (pc = "ExclusionReturned" /\ txt_file.readable)
    => LET lines == [i \in 1..Len(txt_file.lines) |-> Strip(txt_file.lines[i])]
       IN  /\ \A i \in 1..Len(lines) :
                 HasEmail(lines[i]) => Lower(FirstEmail(lines[i])) \in exclusion_emails
           /\ \A e \in exclusion_emails :
                 /\ \E i \in 1..Len(lines) :
                       HasEmail(lines[i]) /\ e = Lower(FirstEmail(lines[i]))
                 /\ \A k \in 1..Len(e) : ~IsUpper(e[k])

C8_Witness ==
    /\ pc = "ExclusionReturned"
    /\ txt_file.readable
    /\ txt_file.lines = << FreeTextLine, LongTailLine >>
    /\ exclusion_emails = { AtX }

\* The Start Processing button is enabled only while no worker runs, so one
\* worker at a time is all the window can have.
OneWorkerSlot == start_button = "normal" => ~WorkerRunning

\* C9: while a worker runs, the selected input path and the selected
\* exclusion path, which the worker reads during its run and never writes,
\* are not written by the UI thread.
C9_ThreadOwnership ==
    [][WorkerRunning => (csv_path' = csv_path /\ txt_path' = txt_path)]_vars

\* The phase of the run's state machine that a control point belongs to.
ClaimPhase(p) ==
    CASE p \in { "Idle", "CsvSelected", "FileSelected" } -> 0
      [] p \in { "Loaded", "SchemaOk" } -> 1
      [] p = "Phase1" -> 2
      [] p = "Phase2" -> 3
      [] p = "Validated" -> 4
      [] p = "DomainResolved" -> 5
      [] p = "Written" -> 6
      [] p = "Done" -> 7

\* C10: every step of a run stays in its phase, enters the next phase of
\* Loaded, Filtered(phase1), Filtered(phase2), Validated, DomainResolved,
\* Written, Done (phase 2 is passed over only without an exclusion file), or
\* leaves early for Done with the empty or the error outcome; exactly one
\* file has been written once the run is Written or Done(success), and none
\* in every other state.
C10_RunStateMachine ==
    [][ /\ \/ ClaimPhase(pc') = ClaimPhase(pc)
           \/ ClaimPhase(pc') = ClaimPhase(pc) + 1
           \/ pc = "Phase1" /\ pc' = "Validated" /\ txt_path = NoPath
           \/ pc' = "Done" /\ Outcome' \in { "none", "empty", "error" }
        /\ pc = "Written" => Outcome' = "success"
        /\ Len(outputs') = IF pc' = "Written" \/ Outcome' = "success" THEN 1 ELSE 0
      ]_vars

C10_Witness ==
    /\ pc = "Done"
    /\ Outcome = "success"
    /\ exclusion_emails # {}
    /\ Len(outputs) = 1
    /\ Len(df_filtered) < Len(df.rows)

\* The place of a control point in the order of main's steps.
StepRank(p) ==
    CASE p = "Idle" -> 0
      [] p = "CsvSelected" -> 1
      [] p = "FileSelected" -> 2
      [] p = "Loaded" -> 3
      [] p = "SchemaOk" -> 4
      [] p = "Phase1" -> 5
      [] p = "Phase2" -> 6
      [] p = "Validated" -> 7
      [] p = "DomainResolved" -> 8
      [] p = "Written" -> 9
      [] p = "Done" -> 10

\* The step now being taken meets a failure: the input file cannot be read, a
\* mandatory column is missing, the exclusion file cannot be read, the email
\* column has no text for the exclusion filter to lower-case, or the output
\* cannot be written.
InputUnreadable == pc = "FileSelected" /\ loaded_path' = NoPath

MissingColumn == pc = "Loaded" /\ ~HasBothColumns(df)

ExclusionUnreadable == pc = "Phase1" /\ txt_path # NoPath /\ ~txt_file.readable

Unanticipated ==
    /\ pc = "Phase1"
    /\ txt_path # NoPath
    /\ exclusion_emails' # {}
    /\ \A i \in 1..Len(df.rows) : df.rows[i].email.t # "str"

OutputUnwritable == pc = "DomainResolved" /\ outputs' = outputs

EndsInError ==
    /\ pc' = "Done"
    /\ Len(notices') = Len(notices) + 1
    /\ notices'[Len(notices')].kind = "error"
    /\ outputs' = << >>

\* C11: every step of a batch run is taken at most once (each step moves the
\* run forward in the order of its steps, none is retried), and a step that
\* meets a failure ends the run at once with one error notice and no output
\* file: process_csv has returned (None, None, None) and save_output is not
\* called, or save_output itself failed; main then returns normally.
C11_FailureContainment ==
    [][ /\ StepRank(pc') > StepRank(pc)
        /\ InputUnreadable => EndsInError
        /\ MissingColumn => EndsInError
        /\ ExclusionUnreadable => EndsInError
        /\ Unanticipated => EndsInError
        /\ OutputUnwritable => EndsInError
      ]_vars

\* The failures of the other steps are contained as C11 says.
OtherFailuresContained ==
    [][ /\ StepRank(pc') > StepRank(pc)
        /\ InputUnreadable => EndsInError
        /\ MissingColumn => EndsInError
        /\ Unanticipated => EndsInError
        /\ OutputUnwritable => EndsInError
      ]_vars

\* The terminal status of the window's last run, by the one notice it showed:
\* the success box, a box that says nothing is left (a warning, or the error
\* box "No valid email addresses found."), or the box of a caught exception.
GuiOutcome ==
    IF pc # "Done" \/ Len(notices) # 1 THEN "none"
    ELSE CASE notices[1].kind = "info" -> "success"
           [] notices[1].kind = "warning" -> "empty"
           [] notices[1].text = "No valid email addresses found." -> "empty"
           [] notices[1].text = "Error: exception" -> "error"
           [] OTHER -> "none"

\* The run has ended, its one outcome was shown and Start Processing is enabled.
RunEnded ==
    /\ pc = "Done"
    /\ start_button = "normal"
    /\ GuiOutcome \in { "success", "empty", "error" }
    /\ GuiOutcome = "success" <=> Len(outputs) = 1

\* C12: while a worker runs, Start Processing is disabled, so no second
\* worker can be started; every started run ends, in exactly one of success,
\* empty result and caught failure, and after it (the early returns
\* included) Start Processing is enabled again.
C12_SingleRun ==
    /\ [](WorkerRunning => start_button = "disabled")
    /\ (WorkerRunning ~> RunEnded)

C12_Witness ==
    /\ RunEnded
    /\ runs = 1
    /\ GuiOutcome = "empty"
    /\ after_queue = << >>

\* C13: every file the window's run has written lies in the directory of the
\* input file that this run loaded its table from.
C13_OutputDestination ==
    \A k \in 1..Len(outputs) : Parent(outputs[k].path) = Parent(loaded_path)

\* The steps of main, taken one by one, end where main as a function of the
\* files ends.
MainAgrees ==
    pc = "Done" /\ csv_path # NoPath =>
       \E writable \in BOOLEAN :
          [ notices |-> notices, outputs |-> outputs ]
             = main(Loaded, df, csv_path, txt_path, txt_file, writable)

\* The terminal status that a sequence of boxes ends in.
OutcomeOf(boxes) ==
    IF boxes = << >> THEN "none"
    ELSE LET last == boxes[Len(boxes)]
         IN  CASE last.kind = "info"    -> "success"
               [] last.kind = "warning" -> "empty"
               [] last.kind = "error"   -> "error"

\* The exclusion file takes no row away: none was selected, it yields the
\* empty set, or no member of its set is the lower-cased email of a row.
ExclusionNoOp ==
    \/ txt_path = NoPath
    \/ LET excl == load_exclusion_emails(txt_file)
       IN  \A i \in 1..Len(df.rows) : ~Excluded(df.rows[i], excl)

\* C14: a run whose exclusion file takes no row away ends as the run on the
\* same input file without an exclusion file does: in the same outcome, with
\* the same output file name and the same output rows.
C14_ExclusionNoOp ==
    pc = "Done" /\ csv_path # NoPath /\ ExclusionNoOp =>
       \E writable \in BOOLEAN :
          LET without == main(Loaded, df, csv_path, NoPath, NoTxtFile, writable)
          IN  /\ Outcome = OutcomeOf(without.notices)
              /\ outputs = without.outputs

\* The same for the tables whose email column holds some text.
ExclusionNoOpOnText ==
    pc = "Done" /\ csv_path # NoPath /\ ExclusionNoOp /\ ~StrAccessorRaises(df) =>
       \E writable \in BOOLEAN :
          LET without == main(Loaded, df, csv_path, NoPath, NoTxtFile, writable)
          IN  /\ Outcome = OutcomeOf(without.notices)
              /\ outputs = without.outputs

\* The steps of the worker, under every interleaving with the window's
\* handlers, end where process_files as a function ends for some files and
\* some selection.
ProcessFilesAgrees ==
    pc = "Done" /\ runs > 0 /\ after_queue = << >> /\ start_button = "normal"
       /\ Len(notices) = 1 /\ notices[1].text # "Please select a CSV file first!" =>
       \E readable, writable \in BOOLEAN, p \in GuiCsvPaths,
          q \in TxtPaths \cup { NoPath }, f \in TxtFiles :
          [ notices |-> notices, outputs |-> outputs ]
             = process_files(readable, df, p, q, f, writable)

\* The kind of outcome a box stands for: success, nothing left to write (a
\* warning, or the window's box "No valid email addresses found."), or error.
BoxKind(box) ==
    CASE box.kind = "info" -> "success"
      [] box.kind = "warning" -> "empty"
      [] box.kind = "error" /\ box.text = "No valid email addresses found." -> "empty"
      [] OTHER -> "error"

WrittenTo(p) == \E k \in 1..Len(outputs) : outputs[k].path = p

\* The one path a run writes to: <input-directory>/<domain>-to-delete.csv.
OnlyTheOutputPath ==
    \A k \in 1..Len(outputs) :
       outputs[k].path = << Parent(csv_path), domain \o ToDeleteSuffix >>

\* to_csv is reached without any box having been shown: nothing asks before
\* a file that exists is overwritten.
NoConfirmation == pc = "Written" => notices = << >>

\* C16: at every point of a run the input table file and the exclusion file
\* hold what they held before it (neither has been written to); the only
\* file written is <input-directory>/<domain>-to-delete.csv, and it is
\* written without a confirmation.
C16_InputFilesUnchanged ==
    /\ csv_path # NoPath => ~WrittenTo(csv_path)
    /\ txt_path # NoPath => ~WrittenTo(txt_path)
    /\ OnlyTheOutputPath
    /\ NoConfirmation

\* What C16 says of the output file holds.
OutputFileAlone == OnlyTheOutputPath /\ NoConfirmation

=============================================================================
